---- MODULE Spec2Model ----
(***************************************************************************)
(* Model of the spreadsheet ingestion pipeline of src/server.js: the two   *)
(* upload handlers (POST /api/booksonix/upload, POST /api/gazelle/upload), *)
(* the two bulk-clear handlers and the tables they write.                  *)
(*                                                                         *)
(* Strings are sequences of one-character strings, so that the code's      *)
(* replace/trim/parse steps are computed character by character.  A cell   *)
(* of a sheet is a string or a number (sheet_to_json in its default raw    *)
(* mode hands numeric cells over as numbers).                              *)
(*                                                                         *)
(* Node runs one handler at a time and switches handlers only at an await, *)
(* i.e. at pool.query.  Every action below is a piece of one handler that  *)
(* contains at most one pool.query; the statement itself is executed by    *)
(* PostgreSQL atomically.  External collaborators fail as section 7 of the *)
(* specification lists: the workbook may fail to open and any storage call *)
(* may fail.                                                               *)
(***************************************************************************)
EXTENDS Integers, Sequences, FiniteSets, TLC

VARIABLES
    booksonix_records,  \* rows of table booksonix_records
    gazelle_sales,      \* rows of table gazelle_sales
    booksonix_id_seq,   \* last value of the SERIAL sequence of booksonix_records.id
    gazelle_id_seq,     \* last value of the SERIAL sequence of gazelle_sales.id
    now,                \* CURRENT_TIMESTAMP, a logical clock
    uploads,            \* transient files in uploads/ (one path per request)
    req,                \* per request: the handler's position and locals
    clears,             \* the responses of the bulk clears executed so far
    sheet,              \* the client's file, when one file is uploaded again and again
    snapshot,           \* history: both tables as they stood when the file was last uploaded
    users,              \* rows of table users
    deletes             \* per DELETE /api/users/:id request: the handler's position and locals

vars == <<booksonix_records, gazelle_sales, booksonix_id_seq, gazelle_id_seq,
          now, uploads, req, clears, sheet, snapshot, users, deletes>>

\* ----------------------------------------------------------------- bounds
MaxReqs == 2        \* requests of one run
MaxRows == 3        \* rows of a sheet (SpecOne, SpecIdem)
MaxConcRows == 1    \* rows of a sheet when uploads run concurrently (Spec)
MaxClears == 1      \* bulk clears of one run
MaxErrRows == 6     \* rows of a sheet whose storage calls may fail (SpecErr)
MaxDay == 32        \* day numbers 0..MaxDay written in a date cell (SpecDate)
MaxMonth == 13      \* month numbers 0..MaxMonth written in a date cell (SpecDate)
MaxLiveRows == 2    \* rows of a sheet whose upload must terminate (SpecLive)
MaxDeletes == 2     \* DELETE /api/users/:id requests of one run (SpecUsers)
MaxDataRows == 2    \* data rows of a sheet of the positional layout (SpecPositional)

Reqs == 1..MaxReqs

\* ---------------------------------------------------------------- strings
Digits == {"0", "1", "2", "3", "4", "5", "6", "7", "8", "9"}

NULL == <<"NULL">>

RECURSIVE TrimLeft(_)
TrimLeft(s) == IF s # <<>> /\ Head(s) = " " THEN TrimLeft(Tail(s)) ELSE s

RECURSIVE TrimRight(_)
TrimRight(s) ==
    IF s # <<>> /\ s[Len(s)] = " " THEN TrimRight(SubSeq(s, 1, Len(s) - 1)) ELSE s

\* String.prototype.trim
Trim(s) == TrimRight(TrimLeft(s))

\* s.replace(/c/g, '') for a set of single characters
StripChars(s, cs) == SelectSeq(s, LAMBDA c : c \notin cs)

\* s.replace(/[^...]/g, '') : keeps the characters of cs
KeepChars(s, cs) == SelectSeq(s, LAMBDA c : c \in cs)

Upper(c) == CASE c = "g" -> "G" [] c = "b" -> "B" [] c = "p" -> "P" [] OTHER -> c

\* s.replace(/GBP/gi, '') : leftmost non-overlapping matches, one pass
RECURSIVE StripGBP(_)
StripGBP(s) ==
    IF Len(s) < 3 THEN s
    ELSE IF <<Upper(s[1]), Upper(s[2]), Upper(s[3])>> = <<"G", "B", "P">>
         THEN StripGBP(SubSeq(s, 4, Len(s)))
         ELSE <<Head(s)>> \o StripGBP(Tail(s))

DigitVal(c) ==
    CASE c = "0" -> 0 [] c = "1" -> 1 [] c = "2" -> 2 [] c = "3" -> 3 [] c = "4" -> 4
      [] c = "5" -> 5 [] c = "6" -> 6 [] c = "7" -> 7 [] c = "8" -> 8 [] c = "9" -> 9

DigitChar(d) == <<"0", "1", "2", "3", "4", "5", "6", "7", "8", "9">>[d + 1]

RECURSIVE DigitsToNat(_)
DigitsToNat(s) ==
    IF s = <<>> THEN 0 ELSE 10 * DigitsToNat(SubSeq(s, 1, Len(s) - 1)) + DigitVal(s[Len(s)])

RECURSIVE NatToStr(_)
NatToStr(n) == IF n < 10 THEN <<DigitChar(n)>> ELSE NatToStr(n \div 10) \o <<DigitChar(n % 10)>>

RECURSIVE Pow10(_)
Pow10(k) == IF k = 0 THEN 1 ELSE 10 * Pow10(k - 1)

\* length of the longest prefix of s made of characters of cs
RECURSIVE PrefixLen(_, _)
PrefixLen(s, cs) == IF s # <<>> /\ Head(s) \in cs THEN 1 + PrefixLen(Tail(s), cs) ELSE 0

\* ------------------------------------------------------------------ cells
Str(chars) == [k |-> "s", s |-> chars, n |-> 0]
Num(n) == [k |-> "n", s |-> <<>>, n |-> n]

\* JavaScript truthiness of a cell value: '' and 0 are falsy
Truthy(c) == IF c.k = "n" THEN c.n # 0 ELSE c.s # <<>>

\* String(v) / v.toString()
String(c) == IF c.k = "n" THEN NatToStr(c.n) ELSE c.s

\* row[a1] || row[a2] || ... || dflt : the first truthy operand, else the last one
RECURSIVE OrChain(_, _, _)
OrChain(row, aliases, dflt) ==
    IF aliases = <<>> THEN dflt
    ELSE IF Head(aliases) \in DOMAIN row /\ Truthy(row[Head(aliases)])
         THEN row[Head(aliases)]
         ELSE OrChain(row, Tail(aliases), dflt)

\* ----------------------------------------------------------------- numbers
\* A JavaScript number that a decimal literal denotes: (-1)^neg * num / den,
\* den a power of ten; nan for NaN.
NaN == [nan |-> TRUE, neg |-> FALSE, num |-> 0, den |-> 1]
Zero == [nan |-> FALSE, neg |-> FALSE, num |-> 0, den |-> 1]

\* parseFloat: leading blanks, an optional sign, digits, an optional fraction;
\* the longest such prefix; NaN when it holds no digit.  (Exponents and
\* "Infinity" need letters that the cell alphabet of this model does not have.)
parseFloat(s) ==
    LET t == TrimLeft(s)
        signed == t # <<>> /\ Head(t) \in {"-", "+"}
        neg == t # <<>> /\ Head(t) = "-"
        u == IF signed THEN Tail(t) ELSE t
        ni == PrefixLen(u, Digits)
        rest == SubSeq(u, ni + 1, Len(u))
        nf == IF rest # <<>> /\ Head(rest) = "." THEN PrefixLen(Tail(rest), Digits) ELSE 0
        fp == SubSeq(rest, 2, nf + 1)
    IN  IF ni + nf = 0 THEN NaN
        ELSE [nan |-> FALSE, neg |-> neg,
              num |-> DigitsToNat(SubSeq(u, 1, ni) \o fp), den |-> Pow10(nf)]

\* x || 0 for a number x: NaN and (minus) zero are falsy
OrZero(x) == IF x.nan \/ x.num = 0 THEN Zero ELSE x

\* The value a DECIMAL(p,2) column stores, in hundredths: PostgreSQL rounds
\* half away from zero.
Decimal2(x) ==
    LET cents == (2 * 100 * x.num + x.den) \div (2 * x.den)
    IN  IF x.neg THEN 0 - cents ELSE cents

\* ------------------------------------------------------------ sheet rows
\* A row of sheet_to_json: a function from column labels to cells.
b_sku5 == ("SKU" :> Str(<<"A", "B", "C", "-", "1", "2", "3">>)
           @@ "Price" :> Str(<<"£", "5", ".", "0", "0">>))
b_nosku == ("SKU" :> Str(<<>>) @@ "Price" :> Str(<<"£", "1", ".", "0", "0">>))
b_sku7 == ("SKU" :> Str(<<"A", "B", "C", "-", "1", "2", "3">>)
           @@ "Price" :> Str(<<"£", "7", ".", "0", "0">>))
b_full == ("SKU" :> Str(<<"A", "B", "C", "1", "2", "3">>)
           @@ "ISBN-13" :> Str(<<"9", "-", "7">>)
           @@ "Title" :> Str(<<"T">>)
           @@ "Publishers" :> Str(<<"P">>)
           @@ "Price" :> Str(<<"G", "B", "P", " ", "1", ",", "2", "3", "4", ".", "5", "0">>))
b_blank == ("sku" :> Str(<<" ", "-", " ">>)
            @@ "ISBN" :> Str(<<"9", "7">>)
            @@ "Title" :> Str(<<"T">>)
            @@ "Publisher" :> Str(<<"P">>)
            @@ "Price" :> Num(7))
b_code == ("SKU" :> Num(0) @@ "Code" :> Str(<<"B", "2">>)
           @@ "TITLE" :> Str(<<"U">>) @@ "RRP" :> Num(7))

BooksonixRows == {b_sku5, b_nosku, b_sku7, b_full, b_blank, b_code}

\* --------------------------------------------- POST /api/booksonix/upload
\* a variant that keeps the hyphens of the SKU
BooksonixSku_KeepHyphens(row) ==
    LET v == OrChain(row, <<"SKU", "sku", "Sku", "Product SKU", "Product Code",
                            "Item Code", "Code">>, Str(<<>>))
    IN  IF Truthy(v) THEN Trim(String(v)) ELSE <<>>

\* sku of a row, '' (falsy) when the row is to be skipped
BooksonixSku(row) ==
    LET v == OrChain(row, <<"SKU", "sku", "Sku", "Product SKU", "Product Code",
                            "Item Code", "Code">>, Str(<<>>))
    IN  IF Truthy(v) THEN Trim(StripChars(String(v), {"-"})) ELSE <<>>

BooksonixIsbn(row) ==
    LET v == OrChain(row, <<"ISBN-13", "ISBN13", "isbn-13", "ISBN", "EAN">>, Str(<<>>))
    IN  IF Truthy(v) THEN Trim(StripChars(String(v), {"-"})) ELSE <<>>

\* price of a row as the number handed to the statement
BooksonixPrice(row) ==
    LET priceValue == OrChain(row, <<"Prices", "Price", "PRICE", "RRP">>, Str(<<>>))
        cleanPrice == Trim(KeepChars(StripChars(StripChars(StripGBP(String(priceValue)),
                                        {"£"}), {","}), Digits \cup {"."}))
    IN  IF Truthy(priceValue) THEN OrZero(parseFloat(cleanPrice)) ELSE Zero

\* the parameters [sku, isbn || null, title, '', publisher, price, 0]
BooksonixParams(row) ==
    [sku |-> BooksonixSku(row),
     isbn |-> IF BooksonixIsbn(row) = <<>> THEN NULL ELSE BooksonixIsbn(row),
     title |-> String(OrChain(row, <<"Title", "TITLE", "Product Title">>, Str(<<>>))),
     author |-> <<>>,
     publisher |-> String(OrChain(row, <<"Publishers", "Publisher", "PUBLISHER">>, Str(<<>>))),
     price |-> Decimal2(BooksonixPrice(row)),
     quantity |-> 0]

\* NULLIF(a, b) and COALESCE(a, b)
NullIf(a, b) == IF a = b THEN NULL ELSE a
Coalesce(a, b) == IF a # NULL THEN a ELSE b

\* a variant that overwrites every column of the stored row
BooksonixOnConflict_Replace(old, p, ts) ==
    [old EXCEPT !.isbn = p.isbn, !.title = p.title, !.author = p.author,
                !.publisher = p.publisher, !.price = p.price, !.quantity = p.quantity,
                !.last_updated = ts]

\* ON CONFLICT (sku) DO UPDATE SET ... : the row after the update
BooksonixOnConflict(old, p, ts) ==
    [old EXCEPT !.isbn = Coalesce(NullIf(p.isbn, <<>>), old.isbn),
                !.title = p.title,
                !.publisher = p.publisher,
                !.price = p.price,
                !.last_updated = ts]

\* a variant without the ON CONFLICT clause and without the unique constraint
UpsertBooksonix_Append(table, p, id, ts) ==
    table \cup {[id |-> id, sku |-> p.sku, isbn |-> p.isbn, title |-> p.title,
                 author |-> p.author, publisher |-> p.publisher, price |-> p.price,
                 quantity |-> p.quantity, upload_date |-> ts, last_updated |-> ts]}

\* the table after INSERT ... ON CONFLICT (sku) DO UPDATE
UpsertBooksonix(table, p, id, ts) ==
    IF \E o \in table : o.sku = p.sku
    THEN {IF o.sku = p.sku THEN BooksonixOnConflict(o, p, ts) ELSE o : o \in table}
    ELSE table \cup {[id |-> id, sku |-> p.sku, isbn |-> p.isbn, title |-> p.title,
                      author |-> p.author, publisher |-> p.publisher, price |-> p.price,
                      quantity |-> p.quantity, upload_date |-> ts, last_updated |-> ts]}

\* a variant that reports every upserted row as inserted
Inserted_Always(table, p) == TRUE

\* RETURNING (xmax = 0) AS inserted
Inserted(table, p) == ~ \E o \in table : o.sku = p.sku

\* ------------------------------------------------ POST /api/gazelle/upload
\* sheet_to_json(..., {raw: false, defval: ''}): every cell is a string and
\* every column of the sheet is present in every row.
g_ok == ("Order Ref" :> Str(<<"O", "1">>) @@ "Customer Name" :> Str(<<"C">>)
         @@ "ISBN" :> Str(<<"9", "-", "7">>) @@ "Quantity" :> Str(<<"2">>)
         @@ "Unit Price" :> Str(<<"£", "5", ".", "0", "0">>)
         @@ "Discount %" :> Str(<<"1", "0", "%">>))
g_noref == ("Order Ref" :> Str(<<" ">>) @@ "Customer Name" :> Str(<<"C">>)
            @@ "ISBN" :> Str(<<"9", "-", "7">>) @@ "Quantity" :> Str(<<"2">>)
            @@ "Unit Price" :> Str(<<"£", "5", ".", "0", "0">>)
            @@ "Discount %" :> Str(<<"1", "0", "%">>))
g_nocust == ("Order Ref" :> Str(<<"O", "1">>) @@ "Customer Name" :> Str(<<>>)
             @@ "ISBN" :> Str(<<>>) @@ "Quantity" :> Str(<<"1">>)
             @@ "Unit Price" :> Str(<<"7">>) @@ "Discount %" :> Str(<<>>))
g_neg == ("Order Ref" :> Str(<<" ", "O", "1">>) @@ "Customer Name" :> Str(<<"C", " ">>)
          @@ "ISBN" :> Str(<<"9", "7">>) @@ "Quantity" :> Str(<<"-", "1">>)
          @@ "Unit Price" :> Str(<<"-", "£", "5", ".", "0", "0">>)
          @@ "Discount %" :> Str(<<>>))

GazelleRows == {g_ok, g_noref, g_nocust, g_neg}

\* a variant that does not trim
Text_Untrimmed(row, aliases) == String(OrChain(row, aliases, Str(<<>>)))

\* (row[a1] || ... || '').toString().trim()
Text(row, aliases) == Trim(String(OrChain(row, aliases, Str(<<>>))))

\* parseInt(s): an optional sign and the digits that follow; NaN without a digit
parseInt(s) ==
    LET t == TrimLeft(s)
        signed == t # <<>> /\ Head(t) \in {"-", "+"}
        u == IF signed THEN Tail(t) ELSE t
        ni == PrefixLen(u, Digits)
    IN  IF ni = 0 THEN NaN
        ELSE [nan |-> FALSE, neg |-> t # <<>> /\ Head(t) = "-",
              num |-> DigitsToNat(SubSeq(u, 1, ni)), den |-> 1]

\* the value an INTEGER column stores
Integer(x) == IF x.neg THEN 0 - x.num ELSE x.num

GazelleQuantity(row) ==
    LET quantityValue == OrChain(row, <<"Quantity", "quantity", "Qty">>, Num(0))
    IN  IF Truthy(quantityValue)
        THEN OrZero(parseInt(KeepChars(String(quantityValue), Digits \cup {"-"})))
        ELSE Zero

GazelleUnitPrice(row) ==
    LET priceValue == OrChain(row, <<"Unit Price", "unit price", "Price">>, Num(0))
        cleanPrice == Trim(StripChars(StripChars(String(priceValue), {"£", "$", "€"}), {","}))
    IN  IF Truthy(priceValue) THEN OrZero(parseFloat(cleanPrice)) ELSE Zero

GazelleDiscount(row) ==
    LET discountValue == OrChain(row, <<"Discount %", "Discount", "discount">>, Num(0))
    IN  IF Truthy(discountValue)
        THEN OrZero(parseFloat(StripChars(String(discountValue), {"%"})))
        ELSE Zero

\* ------------------------------------------------------------------ dates
\* A Date is a day number (days since 1970-01-01) at midnight of a zone: UTC
\* or the server's local zone.  NoDate is null.
NoDate == [zone |-> "none", days |-> 0]
DateOf(zone, days) == [zone |-> zone, days |-> days]

\* day number of the civil date y-m-d in the proleptic Gregorian calendar
DaysFromCivil(y, m, d) ==
    LET yy == IF m <= 2 THEN y - 1 ELSE y
        era == yy \div 400
        yoe == yy - era * 400
        doy == (153 * (IF m > 2 THEN m - 3 ELSE m + 9) + 2) \div 5 + d - 1
        doe == yoe * 365 + yoe \div 4 - yoe \div 100 + doy
    IN  era * 146097 + doe - 719468

\* the civil date <<y, m, d>> of a day number
CivilFromDays(z) ==
    LET zz == z + 719468
        era == zz \div 146097
        doe == zz - era * 146097
        yoe == (doe - doe \div 1460 + doe \div 36524 - doe \div 146096) \div 365
        doy == doe - (365 * yoe + yoe \div 4 - yoe \div 100)
        mp == (5 * doy + 2) \div 153
        d == doy - (153 * mp + 2) \div 5 + 1
        m == IF mp < 10 THEN mp + 3 ELSE mp - 9
    IN  <<IF m <= 2 THEN yoe + era * 400 + 1 ELSE yoe + era * 400, m, d>>

\* MakeDay(year, month, date) of ECMAScript, month counted from 0: months and
\* days out of range carry over
MakeDay(year, month, date) ==
    DaysFromCivil(year + (month \div 12), (month % 12) + 1, 1) + date - 1

\* the largest day number a Date holds (8.64e15 ms)
MaxDateDays == 100000000

\* a variant that is one day off
DateFromDays_NextDay(days) ==
    IF days < 0 - MaxDateDays \/ days > MaxDateDays THEN NoDate ELSE DateOf("utc", days + 1)

\* new Date(ms) for ms = days * 86400 * 1000: an invalid Date beyond the range
DateFromDays(days) ==
    IF days < 0 - MaxDateDays \/ days > MaxDateDays THEN NoDate ELSE DateOf("utc", days)

\* s.split(c)
RECURSIVE Split(_, _)
Split(s, c) ==
    LET k == PrefixLen(s, {x \in {s[i] : i \in 1..Len(s)} : x # c})
    IN  IF k = Len(s) THEN <<s>>
        ELSE <<SubSeq(s, 1, k)>> \o Split(SubSeq(s, k + 2, Len(s)), c)

\* s matches ^\d{lo,hi}$
IsDigits(s, lo, hi) == Len(s) \in lo..hi /\ \A i \in 1..Len(s) : s[i] \in Digits

\* /^\d{1,2}\/\d{1,2}\/\d{4}$/
MatchesDMY(s) ==
    LET p == Split(s, "/")
    IN  Len(p) = 3 /\ IsDigits(p[1], 1, 2) /\ IsDigits(p[2], 1, 2) /\ IsDigits(p[3], 4, 4)

\* /^\d{4}-\d{2}-\d{2}$/
MatchesISO(s) ==
    LET p == Split(s, "-")
    IN  Len(p) = 3 /\ IsDigits(p[1], 4, 4) /\ IsDigits(p[2], 2, 2) /\ IsDigits(p[3], 2, 2)

\* new Date(string) as V8 (the engine of Node) evaluates it, for the strings
\* of this model.  An ISO date is UTC midnight; its day may be 1..31 and
\* carries over.  Three numbers with slashes are month/day/year in local time
\* when the first is 1..31 and year/month/day otherwise; years below 100 are
\* moved to 2000.. or 1900..; the date is invalid (NoDate) when the month is
\* not 1..12 or the day not 1..31.  Any other string of the model is invalid.
GenericDate(s) ==
    IF MatchesISO(s)
    THEN LET p == Split(s, "-")
             y == DigitsToNat(p[1])  m == DigitsToNat(p[2])  d == DigitsToNat(p[3])
         IN  IF m \in 1..12 /\ d \in 1..31 THEN DateOf("utc", MakeDay(y, m - 1, d)) ELSE NoDate
    ELSE IF MatchesDMY(s)
    THEN LET p == Split(s, "/")
             c1 == DigitsToNat(p[1])  c2 == DigitsToNat(p[2])  c3 == DigitsToNat(p[3])
             ymd == c1 \notin 1..31
             year == IF ymd THEN c1 ELSE c3
             y == IF year <= 49 THEN year + 2000 ELSE IF year <= 99 THEN year + 1900 ELSE year
             m == IF ymd THEN c2 ELSE c1
             d == IF ymd THEN c3 ELSE c2
         IN  IF m \in 1..12 /\ d \in 1..31 THEN DateOf("local", MakeDay(y, m - 1, d)) ELSE NoDate
    ELSE NoDate

\* new Date(year, month - 1, day): local time, carrying over; a year below 100
\* counts from 1900
LocalDate(year, month, day) ==
    DateOf("local", MakeDay(IF year <= 99 THEN 1900 + year ELSE year, month - 1, day))

\* parseExcelDate(value)
parseExcelDate(value) ==
    IF ~ Truthy(value) THEN NoDate
    ELSE IF value.k = "n"
    THEN DateFromDays(value.n - 25569)
    ELSE LET trimmedValue == Trim(value.s)
             p == Split(trimmedValue, "/")
         IN  IF GenericDate(trimmedValue) # NoDate THEN GenericDate(trimmedValue)
             ELSE IF MatchesDMY(trimmedValue)
             THEN LocalDate(DigitsToNat(p[3]), DigitsToNat(p[2]), DigitsToNat(p[1]))
             ELSE IF MatchesISO(trimmedValue) /\ GenericDate(trimmedValue) # NoDate
             THEN GenericDate(trimmedValue)
             ELSE NoDate

\* dateValue of a row and its parsed date
GazelleOrderDate(row) ==
    LET dateValue == OrChain(row, <<"Order Date", "OrderDate", "order_date", "Date">>, Str(<<>>))
    IN  IF Truthy(dateValue) THEN parseExcelDate(dateValue) ELSE NoDate

\* the parameters [orderRef, parsedDate, customerName, ..., publisher, format]
GazelleParams(row) ==
    [order_ref |-> Text(row, <<"Order Ref", "OrderRef", "order_ref", "Order Reference",
                               "Order No", "Order Number">>),
     order_date |-> GazelleOrderDate(row),
     customer_name |-> Text(row, <<"Customer Name", "CustomerName", "customer_name",
                                   "Customer", "Retailer Name">>),
     city |-> Text(row, <<"City", "city", "Town">>),
     country |-> Text(row, <<"Country", "country", "Country Code">>),
     title |-> Text(row, <<"Title", "title", "Book Title", "Product Title">>),
     isbn13 |-> Trim(StripChars(String(OrChain(row, <<"ISBN-13", "ISBN13", "isbn13", "ISBN",
                                                      "EAN">>, Str(<<>>))), {"-"})),
     publisher |-> Text(row, <<"Publishers", "Publisher", "publisher">>),
     format |-> Text(row, <<"Format", "format", "Book Format">>),
     quantity |-> Integer(GazelleQuantity(row)),
     unit_price |-> Decimal2(GazelleUnitPrice(row)),
     discount |-> Decimal2(GazelleDiscount(row))]

\* a variant that forgets the customer name
GazelleSkipped_OrderRefOnly(p) == p.order_ref = <<>>

\* if (!orderRef || !customerName) : the row is skipped
GazelleSkipped(p) == p.order_ref = <<>> \/ p.customer_name = <<>>

\* a variant with a unique constraint on (order_ref, isbn13, customer_name)
\* and ON CONFLICT DO NOTHING
InsertGazelle_OnConflict(table, p, id, ts) ==
    IF \E o \in table : /\ o.order_ref = p.order_ref /\ o.isbn13 = p.isbn13
                        /\ o.customer_name = p.customer_name
    THEN table
    ELSE table \cup {[id |-> id, order_ref |-> p.order_ref,
                 order_date |-> p.order_date, customer_name |-> p.customer_name,
                      city |-> p.city, country |-> p.country, title |-> p.title,
                      isbn13 |-> p.isbn13, quantity |-> p.quantity, unit_price |-> p.unit_price,
                      discount |-> p.discount, publisher |-> p.publisher, format |-> p.format,
                      upload_date |-> ts]}

\* the table after INSERT INTO gazelle_sales ... RETURNING id
InsertGazelle(table, p, id, ts) ==
    table \cup {[id |-> id, order_ref |-> p.order_ref,
                 order_date |-> p.order_date, customer_name |-> p.customer_name,
                 city |-> p.city, country |-> p.country, title |-> p.title,
                 isbn13 |-> p.isbn13, quantity |-> p.quantity, unit_price |-> p.unit_price,
                 discount |-> p.discount, publisher |-> p.publisher, format |-> p.format,
                 upload_date |-> ts]}

\* what pool.query does with the INSERT: it resolves, it rejects with a unique
\* violation (err.code 23505), or it rejects with any other error
QueryOutcomes == {"ok", "duplicate", "error"}

\* ------------------------------------------------------------- requests
NoResponse ==
    [status |-> 0, success |-> FALSE, newRecords |-> 0, duplicates |-> 0, errors |-> 0,
     totalRows |-> 0, updatedRecords |-> 0, skippedRows |-> 0, errorSample |-> <<>>]

NoRequest ==
    [kind |-> "none", pc |-> "none", n |-> 0, i |-> 0, data |-> <<>>,
     newRecords |-> 0, duplicates |-> 0, errors |-> 0, skippedNoSku |-> 0,
     updatedRecords |-> 0, skippedRows |-> 0, errorDetails |-> <<>>,
     rejected |-> 0, res |-> NoResponse]

Kinds == {"booksonix", "gazelle"}

Store == <<booksonix_records, gazelle_sales, booksonix_id_seq, gazelle_id_seq, now>>

\* Node runs a handler without interruption up to its next await.  A request
\* is busy while its handler has synchronous code to run: before the workbook
\* is read, in the catch block, and from the end of the loop to the response.
Busy(q) ==
    \/ q.pc \in {"received", "catch", "respond"}
    \/ q.pc = "rows" /\ q.i = q.n

\* the event loop is free to run r (no other handler is in synchronous code)
Free(r) == \A o \in Reqs \ {r} : ~ Busy(req[o])
Idle == \A o \in Reqs : ~ Busy(req[o])

\* upload.single(...) has stored the file and the handler is entered.  Request
\* numbers are handed out in order of arrival.
Arrive(r, kind) ==
    /\ Idle
    /\ req[r].pc = "none"
    /\ \A q \in Reqs : q < r => req[q].pc # "none"
    /\ uploads' = uploads \cup {r}
    /\ req' = [req EXCEPT ![r] = [@ EXCEPT !.kind = kind, !.pc = "received"]]
    /\ UNCHANGED <<Store, clears, sheet, users, deletes>>

Receive(r, kind) == Arrive(r, kind) /\ UNCHANGED snapshot

\* the client uploads its file, the first time or once more after the previous
\* upload was answered
ReceiveSheet(r) ==
    /\ r > 1 => req[r - 1].pc = "done"
    /\ Arrive(r, sheet.kind)
    /\ snapshot' = <<booksonix_records, gazelle_sales>>

\* if (!req.file) return res.status(400).json(...)
NoFile(r, kind) ==
    /\ Idle
    /\ req[r].pc = "none"
    /\ \A q \in Reqs : q < r => req[q].pc # "none"
    /\ req' = [req EXCEPT ![r] = [@ EXCEPT !.kind = kind, !.pc = "done",
                                            !.res = [NoResponse EXCEPT !.status = 400]]]
    /\ UNCHANGED <<Store, uploads, clears, sheet, users, deletes, snapshot>>

\* xlsx.readFile and sheet_to_json succeed: data holds n rows.  The sheet is
\* an input of the run; the content of a row is drawn when the loop reaches it.
ReadWorkbook(r, n) ==
    /\ req[r].pc = "received"
    /\ req' = [req EXCEPT ![r] = [@ EXCEPT !.pc = "rows", !.n = n]]
    /\ UNCHANGED <<Store, uploads, clears, sheet, users, deletes, snapshot>>

\* xlsx.readFile throws: control passes to the handler's catch block
ReadWorkbookThrows(r) ==
    /\ req[r].pc = "received"
    /\ req' = [req EXCEPT ![r] = [@ EXCEPT !.pc = "catch"]]
    /\ UNCHANGED <<Store, uploads, clears, sheet, users, deletes, snapshot>>

\* if (!sku) : the row is skipped
BooksonixSkipped(sku) == sku = <<>>

\* if (!sku) { skippedNoSku++; errors++; continue; }
BooksonixSkip(q) == [q EXCEPT !.skippedNoSku = @ + 1, !.errors = @ + 1]

\* a variant that reads the inserted flag the wrong way round
BooksonixCount_Swapped(q, inserted) ==
    IF inserted THEN [q EXCEPT !.duplicates = @ + 1] ELSE [q EXCEPT !.newRecords = @ + 1]

\* a variant that ignores the inserted flag
BooksonixCount_AlwaysNew(q, inserted) == [q EXCEPT !.newRecords = @ + 1]

\* if (result.rows[0].inserted) newRecords++; else duplicates++;
BooksonixCount(q, inserted) ==
    IF inserted THEN [q EXCEPT !.newRecords = @ + 1] ELSE [q EXCEPT !.duplicates = @ + 1]

\* a variant without the try block of the row: the rejection reaches the
\* catch block of the handler
BooksonixCatch_Rethrow(q) == [q EXCEPT !.pc = "catch"]

\* catch (err) { console.error(...); errors++; } : the loop goes on
BooksonixCatch(q) == [q EXCEPT !.errors = @ + 1]

\* One iteration of `for (const row of data)`; ok tells whether pool.query
\* resolves (TRUE) or rejects (FALSE).  data and rejected are history: the rows
\* consumed so far and the number of rejected storage calls.
BooksonixRowStep(r, row, ok) ==
    LET q == req[r]
        p == BooksonixParams(row)
        next == [q EXCEPT !.i = @ + 1, !.data = Append(@, row),
                          !.rejected = IF ok THEN @ ELSE @ + 1]
    IN  /\ Idle
        /\ q.kind = "booksonix" /\ q.pc = "rows" /\ q.i < q.n
        /\ IF BooksonixSkipped(p.sku)
           THEN /\ ok
                /\ req' = [req EXCEPT ![r] = BooksonixSkip(next)]
                /\ UNCHANGED Store
           ELSE IF ok
           THEN /\ booksonix_records' =
                       UpsertBooksonix(booksonix_records, p, booksonix_id_seq + 1, now + 1)
                /\ booksonix_id_seq' = booksonix_id_seq + 1
                /\ now' = now + 1
                /\ req' = [req EXCEPT ![r] =
                               BooksonixCount(next, Inserted(booksonix_records, p))]
                /\ UNCHANGED <<gazelle_sales, gazelle_id_seq>>
           ELSE /\ req' = [req EXCEPT ![r] = BooksonixCatch(next)]
                /\ UNCHANGED Store
        /\ UNCHANGED <<uploads, clears, sheet, users, deletes, snapshot>>

\* a variant without the try block of the row: the rejection reaches the
\* catch block of the handler
GazelleCatch_Rethrow(q, out) == [q EXCEPT !.pc = "catch"]

\* a variant that takes every rejection for a unique violation
GazelleCatch_AllDuplicates(q, out) == [q EXCEPT !.updatedRecords = @ + 1]

\* a variant that counts a unique violation as an error too
GazelleCatch_CountBoth(q, out) ==
    IF out = "duplicate"
    THEN [q EXCEPT !.updatedRecords = @ + 1, !.errors = @ + 1]
    ELSE [q EXCEPT !.errors = @ + 1, !.errorDetails = Append(@, [row |-> q.i])]

\* catch (err) of the row: a unique violation counts as a duplicate, anything
\* else as an error whose detail is kept
GazelleCatch(q, out) ==
    IF out = "duplicate"
    THEN [q EXCEPT !.updatedRecords = @ + 1]
    ELSE [q EXCEPT !.errors = @ + 1, !.errorDetails = Append(@, [row |-> q.i])]

\* One iteration of `for (let i = 0; i < rawData.length; i++)`; out is what
\* pool.query does.  q.i counts the rows consumed, so the row at hand is row
\* i + 1 of the code's log lines.
GazelleRowStep(r, row, out) ==
    LET q == req[r]
        p == GazelleParams(row)
        next == [q EXCEPT !.i = @ + 1, !.data = Append(@, row),
                          !.rejected = IF out = "error" THEN @ + 1 ELSE @]
    IN  /\ Idle
        /\ q.kind = "gazelle" /\ q.pc = "rows" /\ q.i < q.n
        /\ IF GazelleSkipped(p)
           THEN /\ out = "ok"
                /\ req' = [req EXCEPT ![r] = [next EXCEPT !.skippedRows = @ + 1]]
                /\ UNCHANGED Store
           ELSE IF out = "ok"
           THEN /\ gazelle_sales' = InsertGazelle(gazelle_sales, p, gazelle_id_seq + 1, now + 1)
                /\ gazelle_id_seq' = gazelle_id_seq + 1
                /\ now' = now + 1
                /\ req' = [req EXCEPT ![r] = [next EXCEPT !.newRecords = @ + 1]]
                /\ UNCHANGED <<booksonix_records, booksonix_id_seq>>
           ELSE /\ req' = [req EXCEPT ![r] = GazelleCatch(next, out)]
                /\ UNCHANGED Store
        /\ UNCHANGED <<uploads, clears, sheet, users, deletes, snapshot>>

\* the loop is over: fs.unlinkSync(req.file.path)
Unlink(r) ==
    /\ req[r].pc = "rows" /\ req[r].i = req[r].n
    /\ uploads' = uploads \ {r}
    /\ req' = [req EXCEPT ![r] = [@ EXCEPT !.pc = "respond"]]
    /\ UNCHANGED <<Store, clears, sheet, users, deletes, snapshot>>

\* errorDetails.slice(0, 5)
SampleSize == 5
Slice(s, k) == SubSeq(s, 1, IF Len(s) < k THEN Len(s) ELSE k)

\* res.json({ success: true, ... }) of the two handlers
Summary(q) ==
    IF q.kind = "booksonix"
    THEN [NoResponse EXCEPT !.status = 200, !.success = TRUE, !.newRecords = q.newRecords,
                            !.duplicates = q.duplicates, !.errors = q.errors]
    ELSE [NoResponse EXCEPT !.status = 200, !.success = TRUE, !.newRecords = q.newRecords,
                            !.duplicates = q.updatedRecords, !.errors = q.errors,
                            !.totalRows = q.n, !.updatedRecords = q.updatedRecords,
                            !.skippedRows = q.skippedRows,
                            !.errorSample = Slice(q.errorDetails, SampleSize)]

Respond(r) ==
    /\ req[r].pc = "respond"
    /\ req' = [req EXCEPT ![r] = [NoRequest EXCEPT !.kind = req[r].kind, !.pc = "done",
                                                    !.res = Summary(req[r])]]
    /\ UNCHANGED <<Store, uploads, clears, sheet, users, deletes, snapshot>>

\* a variant whose catch block leaves the file where it is
CatchUploads_Keep(files, r) == files

\* catch (error) { if (fs.existsSync(path)) fs.unlinkSync(path); res.status(500)... }
CatchUploads(files, r) == IF r \in files THEN files \ {r} ELSE files

Catch(r) ==
    /\ req[r].pc = "catch"
    /\ uploads' = CatchUploads(uploads, r)
    /\ req' = [req EXCEPT ![r] = [NoRequest EXCEPT !.kind = req[r].kind, !.pc = "done",
                                                    !.res = [NoResponse EXCEPT !.status = 500]]]
    /\ UNCHANGED <<Store, clears, sheet, users, deletes, snapshot>>

\* DELETE /api/clear-booksonix
ClearBooksonix ==
    /\ Idle
    /\ Len(clears) < MaxClears
    /\ booksonix_records' = {}
    /\ now' = now + 1
    /\ clears' = Append(clears, [kind |-> "booksonix",
                                 deletedCount |-> Cardinality(booksonix_records)])
    /\ UNCHANGED <<gazelle_sales, booksonix_id_seq, gazelle_id_seq, uploads, req, sheet, users, deletes, snapshot>>

\* a variant whose statement has no table name check: it empties both tables
ClearData_Both ==
    /\ Idle
    /\ Len(clears) < MaxClears
    /\ gazelle_sales' = {}
    /\ booksonix_records' = {}
    /\ now' = now + 1
    /\ clears' = Append(clears, [kind |-> "gazelle",
                                 deletedCount |-> Cardinality(gazelle_sales)])
    /\ UNCHANGED <<booksonix_id_seq, gazelle_id_seq, uploads, req, sheet, users, deletes, snapshot>>

\* DELETE /api/clear-data
ClearData ==
    /\ Idle
    /\ Len(clears) < MaxClears
    /\ gazelle_sales' = {}
    /\ now' = now + 1
    /\ clears' = Append(clears, [kind |-> "gazelle",
                                 deletedCount |-> Cardinality(gazelle_sales)])
    /\ UNCHANGED <<booksonix_records, booksonix_id_seq, gazelle_id_seq, uploads, req, sheet, users, deletes, snapshot>>

\* ------------------------------------------------------------------ users
\* the users table after initializeDatabase: the admin user it creates
DefaultUsers == {[id |-> 1, role |-> "admin"]}

DeleteReqs == 1..MaxDeletes

NoDelete == [pc |-> "none", id |-> 0, role |-> "", status |-> 0]

\* no user is being deleted: the state of the users table and of its handler
\* in the runs of the upload handlers
UsersAtRest == users = DefaultUsers /\ deletes = [d \in DeleteReqs |-> NoDelete]

\* ------------------------------------ Booksonix uploads running concurrently
b_other == ("SKU" :> Str(<<"B", "2">>) @@ "Title" :> Str(<<"U">>))

ConcBooksonixRows == {b_sku7, b_other, b_nosku}

NoSheet == [kind |-> "none", rows |-> <<>>]

Init ==
    /\ booksonix_records = {}
    /\ gazelle_sales = {}
    /\ booksonix_id_seq = 0
    /\ gazelle_id_seq = 0
    /\ now = 0
    /\ uploads = {}
    /\ req = [r \in Reqs |-> NoRequest]
    /\ clears = <<>>
    /\ sheet = NoSheet
    /\ snapshot = <<{}, {}>>
    /\ UsersAtRest

Next ==
    \/ \E r \in Reqs : Receive(r, "booksonix")
    \/ \E r \in Reqs : NoFile(r, "booksonix")
    \/ \E r \in Reqs, n \in 0..MaxConcRows : ReadWorkbook(r, n)
    \/ \E r \in Reqs : ReadWorkbookThrows(r)
    \/ \E r \in Reqs, row \in ConcBooksonixRows, ok \in BOOLEAN : BooksonixRowStep(r, row, ok)
    \/ \E r \in Reqs : Unlink(r)
    \/ \E r \in Reqs : Respond(r)
    \/ \E r \in Reqs : Catch(r)
    \/ ClearBooksonix

Spec == Init /\ [][Next]_vars

\* ------------------------------------------- one upload on a given store
\* the tables after the rows were ingested one by one, ids and timestamps
\* counting from k
RECURSIVE IngestBooksonix(_, _, _)
IngestBooksonix(table, rows, k) ==
    IF rows = <<>> THEN table
    ELSE IngestBooksonix(UpsertBooksonix(table, BooksonixParams(Head(rows)), k + 1, k + 1),
                         Tail(rows), k + 1)

RECURSIVE IngestGazelle(_, _, _)
IngestGazelle(table, rows, k) ==
    IF rows = <<>> THEN table
    ELSE IngestGazelle(InsertGazelle(table, GazelleParams(Head(rows)), k + 1, k + 1),
                       Tail(rows), k + 1)

\* stores that earlier uploads have left behind
StartStores ==
    {[b |-> <<>>, g |-> <<>>], [b |-> <<b_full>>, g |-> <<g_ok>>],
     [b |-> <<b_sku5, b_code>>, g |-> <<>>]}

InitStore(st) ==
    /\ booksonix_records = IngestBooksonix({}, st.b, 0)
    /\ gazelle_sales = IngestGazelle({}, st.g, 0)
    /\ booksonix_id_seq = Len(st.b)
    /\ gazelle_id_seq = Len(st.g)
    /\ now = Len(st.b) + Len(st.g)
    /\ uploads = {}
    /\ req = [r \in Reqs |-> NoRequest]
    /\ clears = <<>>
    /\ snapshot = <<{}, {}>>
    /\ UsersAtRest

InitOne == sheet = NoSheet /\ \E st \in StartStores : InitStore(st)

NextOne ==
    \/ \E kind \in Kinds : Receive(1, kind)
    \/ \E kind \in Kinds : NoFile(1, kind)
    \/ \E n \in 0..MaxRows : ReadWorkbook(1, n)
    \/ ReadWorkbookThrows(1)
    \/ \E row \in BooksonixRows, ok \in BOOLEAN : BooksonixRowStep(1, row, ok)
    \/ \E row \in GazelleRows, out \in QueryOutcomes : GazelleRowStep(1, row, out)
    \/ Unlink(1)
    \/ Respond(1)
    \/ Catch(1)

SpecOne == InitOne /\ [][NextOne]_vars

\* --------------------------------- one file uploaded again and again
Seqs(S, n) == UNION {[1..k -> S] : k \in 0..n}

Sheets ==
    {[kind |-> "booksonix", rows |-> f] : f \in Seqs(BooksonixRows, MaxRows)}
    \cup {[kind |-> "gazelle", rows |-> f] : f \in Seqs(GazelleRows, MaxRows)}

InitIdem == sheet \in Sheets /\ \E st \in StartStores : InitStore(st)

\* a variant whose loop runs through the sheet from its last row
SheetRow_Backwards(r) == sheet.rows[Len(sheet.rows) - req[r].i]

\* the row the loop of request r has reached
SheetRow(r) == sheet.rows[req[r].i + 1]

NextIdem ==
    \/ \E r \in Reqs : ReceiveSheet(r)
    \/ \E r \in Reqs : ReadWorkbook(r, Len(sheet.rows))
    \/ \E r \in Reqs : req[r].i < req[r].n /\ BooksonixRowStep(r, SheetRow(r), TRUE)
    \/ \E r \in Reqs : req[r].i < req[r].n /\ GazelleRowStep(r, SheetRow(r), "ok")
    \/ \E r \in Reqs : Unlink(r)
    \/ \E r \in Reqs : Respond(r)

SpecIdem == InitIdem /\ [][NextIdem]_vars

\* ------------------------------------------------------------ properties
\* request r consumes one row in this step; the row is the last of data'
RowStep(r) ==
    /\ req[r].pc = "rows"
    /\ req'[r].pc \in {"rows", "catch"}
    /\ req'[r].i = req[r].i + 1

StepRow(r) == req'[r].data[req'[r].i]

\* the mandatory key of the row is empty after normalisation
KeyEmpty(kind, row) ==
    IF kind = "booksonix"
    THEN BooksonixParams(row).sku = <<>>
    ELSE GazelleParams(row).order_ref = <<>> \/ GazelleParams(row).customer_name = <<>>

\* C1: in both handlers a row whose mandatory key is empty after normalisation
\* (Booksonix: the SKU; Gazelle: the order reference or the customer name) is
\* counted as rejected, is never counted as new or updated and leaves the
\* tables as they were, whatever its other fields hold.
C1_EmptyKeyRejected ==
    [][\A r \in Reqs :
          RowStep(r) /\ KeyEmpty(req[r].kind, StepRow(r))
          => /\ req'[r].skippedNoSku + req'[r].skippedRows
                    = req[r].skippedNoSku + req[r].skippedRows + 1
             /\ req'[r].newRecords = req[r].newRecords
             /\ req'[r].duplicates = req[r].duplicates
             /\ req'[r].updatedRecords = req[r].updatedRecords
             /\ booksonix_records' = booksonix_records
             /\ gazelle_sales' = gazelle_sales]_vars

\* rows with populated fields and an empty key were consumed by both handlers
C1_Witness ==
    \/ /\ req[1].kind = "booksonix" /\ req[1].pc = "respond"
       /\ req[1].data = <<b_blank, b_full, b_code>>
       /\ req[1].skippedNoSku = 1 /\ req[1].newRecords = 2
    \/ /\ req[1].kind = "gazelle" /\ req[1].pc = "respond"
       /\ req[1].data = <<g_nocust, g_ok, g_noref>>
       /\ req[1].skippedRows = 2 /\ req[1].newRecords = 1

\* the stored record of a SKU
Record(table, sku) == CHOOSE o \in table : o.sku = sku

\* C2: when an ingested Booksonix row updates an existing entity, each of
\* isbn, title, publisher and price keeps the stored value when the row's
\* normalised value is empty and the stored one is not, and takes the row's
\* value when that is non-empty.  (A price is a number and is never empty.)
C2_CoalesceOnUpdate ==
    [][\A r \in Reqs :
          RowStep(r) /\ req'[r].duplicates = req[r].duplicates + 1
          => LET p == BooksonixParams(StepRow(r))
                 old == Record(booksonix_records, p.sku)
                 new == Record(booksonix_records', p.sku)
             IN  /\ \A f \in {"isbn", "title", "publisher"} :
                        IF p[f] \in {<<>>, NULL}
                        THEN old[f] \notin {<<>>, NULL} => new[f] = old[f]
                        ELSE new[f] = p[f]
                 /\ new.price = p.price]_vars

\* no request arrived after r
Latest(r) == \A q \in Reqs : q > r => req[q].pc = "none"

WithoutLastUpdated(table) ==
    {[f \in DOMAIN o \ {"last_updated"} |-> o[f]] : o \in table}

\* C3: when a Booksonix file that was ingested is ingested again, with no
\* other write in between and no storage failure, the second ingestion reports
\* no new record, reports as updated as many rows as the first ingestion
\* reported new or updated, and leaves every stored value except the
\* last-modified timestamp as it was.
C3_ReingestIdempotent ==
    \A r \in Reqs :
        r > 1 /\ sheet.kind = "booksonix" /\ req[r].pc = "done" /\ Latest(r)
        => /\ req[r].res.newRecords = 0
           /\ req[r].res.duplicates = req[r - 1].res.newRecords + req[r - 1].res.duplicates
           /\ WithoutLastUpdated(booksonix_records) = WithoutLastUpdated(snapshot[1])

\* a file of three rows for two entities was ingested twice, and the second
\* ingestion moved the timestamps
C3_Witness ==
    /\ sheet = [kind |-> "booksonix", rows |-> <<b_full, b_code, b_sku5>>]
    /\ req[2].pc = "done" /\ req[2].res.duplicates = 3
    /\ Cardinality(booksonix_records) = 2
    /\ booksonix_records # snapshot[1]

C5_File == <<b_sku5, b_nosku, b_sku7>>

\* C5: on an empty table the file [SKU "ABC-123", Price "£5.00"], [SKU "",
\* Price "£1.00"], [SKU "ABC-123", Price "£7.00"] gives one new record, one
\* rejected row and one updated record; afterwards exactly one record exists,
\* under SKU "ABC123", with price 7.00.
C5_EndToEnd ==
    /\ sheet.rows = C5_File /\ sheet.kind = "booksonix"
       /\ req[1].pc = "respond" /\ snapshot[1] = {}
       => /\ req[1].newRecords = 1
          /\ req[1].skippedNoSku = 1
          /\ req[1].duplicates = 1
          /\ \E o \in booksonix_records :
                 /\ booksonix_records = {o}
                 /\ o.sku = <<"A", "B", "C", "1", "2", "3">>
                 /\ o.price = 700
    /\ sheet.rows = C5_File /\ sheet.kind = "booksonix"
       /\ req[1].pc = "done" /\ snapshot[1] = {}
       => /\ req[1].res.status = 200
          /\ req[1].res.newRecords = 1
          /\ req[1].res.duplicates = 1

C5_Witness ==
    /\ sheet.rows = C5_File /\ sheet.kind = "booksonix"
    /\ req[1].pc = "respond" /\ snapshot[1] = {}
    /\ Cardinality(booksonix_records) = 1

\* C4: at every moment no two Booksonix records share a SKU, and the SKU of a
\* stored record never changes, whatever uploads and clears run one after the
\* other or concurrently.
C4_SkuIdentity ==
    [][/\ \A o1, o2 \in booksonix_records' : o1.sku = o2.sku => o1 = o2
       /\ \A o \in booksonix_records, o2 \in booksonix_records' :
              o.id = o2.id => o.sku = o2.sku]_vars

\* request 2 arrived after request 1 and created the record that the row of
\* request 1 then updated
C4_Witness ==
    /\ req[1].pc = "respond" /\ req[1].duplicates = 1
    /\ req[2].pc = "done" /\ req[2].res.newRecords = 1
    /\ clears = <<>>
    /\ Cardinality(booksonix_records) = 1

Persisted(kind, row) ==
    IF kind = "booksonix"
    THEN LET p == BooksonixParams(row)
         IN  \E o \in booksonix_records' :
                 /\ o.sku = p.sku /\ o.title = p.title
                 /\ o.publisher = p.publisher /\ o.price = p.price
                 /\ o.last_updated = now'
    ELSE LET p == GazelleParams(row)
         IN  \E o \in gazelle_sales' \ gazelle_sales :
                 /\ o.order_ref = p.order_ref /\ o.customer_name = p.customer_name
                 /\ o.quantity = p.quantity /\ o.unit_price = p.unit_price

\* C8: a storage failure on one row adds one to the error count, stores
\* nothing and undoes nothing, and the loop goes on; a row whose storage call
\* succeeds is persisted.
C8_RowFailureIsolated ==
    [][\A r \in Reqs :
          RowStep(r)
          => /\ req'[r].rejected = req[r].rejected + 1
                => /\ req'[r].errors = req[r].errors + 1
                   /\ booksonix_records' = booksonix_records
                   /\ gazelle_sales' = gazelle_sales
                   /\ req'[r].pc = "rows"
             /\ \/ req'[r].newRecords = req[r].newRecords + 1
                \/ req'[r].duplicates = req[r].duplicates + 1
                => Persisted(req[r].kind, StepRow(r))]_vars

\* one storage call of three failed; the rows before and after it are stored
C8_Witness ==
    /\ req[1].kind = "booksonix" /\ req[1].pc = "respond"
    /\ req[1].data = <<b_code, b_full, b_sku7>>
    /\ req[1].rejected = 1 /\ req[1].errors = 1
    /\ req[1].newRecords = 2
    /\ \E o \in booksonix_records : o.price = 700

\* C9: in the Gazelle handler every row adds one to exactly one of the four
\* counters, so new + updated + skipped + errors is the number of rows
\* consumed and, in the summary, totalRows.
C9_GazelleCountsAddUp ==
    \A r \in Reqs :
        req[r].kind = "gazelle"
        => /\ req[r].pc \in {"rows", "respond"}
              => req[r].newRecords + req[r].updatedRecords + req[r].skippedRows
                     + req[r].errors = req[r].i
           /\ req[r].pc = "done" /\ req[r].res.status = 200
              => req[r].res.newRecords + req[r].res.updatedRecords
                     + req[r].res.skippedRows + req[r].res.errors = req[r].res.totalRows

C9_Witness ==
    /\ req[1].kind = "gazelle" /\ req[1].pc = "done"
    /\ req[1].res.totalRows = 3
    /\ req[1].res.updatedRecords = 1 /\ req[1].res.errors = 1 /\ req[1].res.skippedRows = 1

\* C10: the errors count of the Booksonix summary is the number of rows whose
\* storage call failed; rows rejected for a missing SKU are not in it.
C10_ErrorsAreStorageFailures ==
    \A r \in Reqs :
        req[r].kind = "booksonix" /\ req[r].pc = "respond"
        => Summary(req[r]).errors = req[r].rejected

\* --------------------------- one Gazelle upload whose storage calls may fail
ErrRows == {g_ok, g_noref}

InitErr == sheet = NoSheet /\ InitStore([b |-> <<>>, g |-> <<>>])

NextErr ==
    \/ Receive(1, "gazelle")
    \/ \E n \in 0..MaxErrRows : ReadWorkbook(1, n)
    \/ \E row \in ErrRows, out \in {"ok", "error"} : GazelleRowStep(1, row, out)
    \/ Unlink(1)
    \/ Respond(1)

SpecErr == InitErr /\ [][NextErr]_vars

Min(a, b) == IF a < b THEN a ELSE b

\* C11: in the Gazelle upload the retained error-detail list holds at most 5
\* entries at every point of the row iteration, and the errorSample of the
\* summary is the first min(5, errors) errored rows in sheet order, each with
\* its row index.
C11_ErrorDetailsBounded ==
    \A r \in Reqs :
        req[r].kind = "gazelle"
        => /\ Len(req[r].errorDetails) <= SampleSize
           /\ req[r].pc = "respond"
              => LET sample == Summary(req[r]).errorSample
                 IN  /\ Len(sample) = Min(SampleSize, req[r].errors)
                     /\ sample = SubSeq(req[r].errorDetails, 1, Len(sample))
                     /\ \A k \in 1..Len(sample) : sample[k].row \in 1..req[r].n
                     /\ \A k \in 2..Len(sample) : sample[k - 1].row < sample[k].row

\* the rows of the client's file that carry an order reference and a customer name
Qualifying(rows) == SelectSeq(rows, LAMBDA row : ~ KeyEmpty("gazelle", row))

\* C12: the Gazelle upload is append-only.  Ingesting a file with n qualifying
\* rows, every insert succeeding, leaves every record that was stored before
\* as it was and adds n records, also when records with the same order
\* reference, ISBN and customer name are stored already.
C12_GazelleAppendOnly ==
    \A r \in Reqs :
        sheet.kind = "gazelle" /\ req[r].pc = "done" /\ Latest(r)
        => /\ snapshot[2] \subseteq gazelle_sales
           /\ Cardinality(gazelle_sales)
                  = Cardinality(snapshot[2]) + Len(Qualifying(sheet.rows))
           /\ req[r].res.newRecords = Len(Qualifying(sheet.rows))

\* a file with two rows of one order reference, ISBN and customer was ingested
\* twice
C12_Witness ==
    /\ sheet = [kind |-> "gazelle", rows |-> <<g_ok, g_neg, g_noref>>]
    /\ req[2].pc = "done"
    /\ Cardinality(snapshot[2]) = 2
    /\ Cardinality(gazelle_sales) = 4
    /\ \A o \in gazelle_sales : o.order_ref = <<"O", "1">> /\ o.isbn13 = <<"9", "7">>

\* ------------------- concurrent Booksonix uploads of given files, no failure
RaceRows == {b_sku5, b_sku7, b_other}

\* the two uploads that race
RaceReqs == {1, 2}

\* one file per request
RaceFiles == [RaceReqs -> Seqs(RaceRows, MaxConcRows)]

InitRace ==
    /\ sheet \in {[kind |-> "booksonix", files |-> f] : f \in RaceFiles}
    /\ InitStore([b |-> <<>>, g |-> <<>>])

\* the row the loop of request r has reached in its file
RaceRow(r) == sheet.files[r][req[r].i + 1]

NextRace ==
    \/ \E r \in RaceReqs : Receive(r, "booksonix")
    \/ \E r \in RaceReqs : ReadWorkbook(r, Len(sheet.files[r]))
    \/ \E r \in RaceReqs : req[r].i < req[r].n /\ BooksonixRowStep(r, RaceRow(r), TRUE)
    \/ \E r \in RaceReqs : Unlink(r)
    \/ \E r \in RaceReqs : Respond(r)

SpecRace == InitRace /\ [][NextRace]_vars

\* the SKUs of the rows of a file
FileSkus(file) == {BooksonixParams(file[k]).sku : k \in 1..Len(file)}

RaceSkus == UNION {FileSkus(sheet.files[r]) : r \in RaceReqs}

\* the sum of one count of the responses of requests 1..k
RECURSIVE ResSum(_, _)
ResSum(k, field) == IF k = 0 THEN 0 ELSE req[k].res[field] + ResSum(k - 1, field)

RECURSIVE RaceRowCount(_)
RaceRowCount(k) == IF k = 0 THEN 0 ELSE Len(sheet.files[k]) + RaceRowCount(k - 1)

\* C13: when two Booksonix uploads run concurrently on a table that holds none of
\* their SKUs, then under every interleaving of their upserts exactly one
\* record exists for each SKU afterwards, one row per SKU is counted as new
\* and every other row as updated, and no row is counted as an error; for two
\* uploads of one row each with the same SKU, one reports it new and the other
\* updated.
C13_RaceOneNewOneUpdated ==
    (\A r \in RaceReqs : req[r].pc = "done")
    => /\ \A s \in RaceSkus : Cardinality({o \in booksonix_records : o.sku = s}) = 1
       /\ ResSum(2, "newRecords") = Cardinality(RaceSkus)
       /\ ResSum(2, "duplicates") = RaceRowCount(2) - Cardinality(RaceSkus)
       /\ \A r \in RaceReqs : req[r].res.status = 200 /\ req[r].res.errors = 0
       /\ \A r1, r2 \in RaceReqs :
              /\ r1 # r2
              /\ Len(sheet.files[r1]) = 1 /\ Len(sheet.files[r2]) = 1
              /\ FileSkus(sheet.files[r1]) = FileSkus(sheet.files[r2])
              => /\ req[r1].res.newRecords + req[r2].res.newRecords = 1
                 /\ req[r1].res.duplicates + req[r2].res.duplicates = 1

\* request 1 arrived first, request 2 created the record, and the row of
\* request 1 then updated it
C13_Witness ==
    /\ sheet.kind = "booksonix"
    /\ sheet.files[1] = <<b_sku5>> /\ sheet.files[2] = <<b_sku7>>
    /\ req[2].pc = "done" /\ req[2].res.newRecords = 1 /\ req[2].res.duplicates = 0
    /\ req[1].pc = "done" /\ req[1].res.newRecords = 0 /\ req[1].res.duplicates = 1
    /\ Cardinality(booksonix_records) = 1

\* ------------------------------- one Gazelle row with an order date cell
Years == {2024, 2025}

Pad2(n) == IF n < 10 THEN <<"0">> \o NatToStr(n) ELSE NatToStr(n)

\* the texts "DD/MM/YYYY", "D/M/YYYY" and "YYYY-MM-DD"
DMYText(d, m, y) == Pad2(d) \o <<"/">> \o Pad2(m) \o <<"/">> \o NatToStr(y)
DMYShort(d, m, y) == NatToStr(d) \o <<"/">> \o NatToStr(m) \o <<"/">> \o NatToStr(y)
ISOText(y, m, d) == NatToStr(y) \o <<"-">> \o Pad2(m) \o <<"-">> \o Pad2(d)

\* serial numbers: zero, the first days, the epoch, present days, the last day
\* of year 9999, the last day a Date holds and the day after
Serials == {0, 1, 60, 25568, 25569, 25570, 45000, 45689, 2958465, 100025569, 100025570}

DateCells ==
    {Str(DMYText(d, m, y)) : d \in 0..MaxDay, m \in 0..MaxMonth, y \in Years}
    \cup {Str(DMYShort(d, m, y)) : d \in 0..MaxDay, m \in 0..MaxMonth, y \in Years}
    \cup {Str(ISOText(y, m, d)) : d \in 0..MaxDay, m \in 0..MaxMonth, y \in Years}
    \cup {Num(s) : s \in Serials}
    \cup {Str(<<>>), Str(<<"n", "/", "a">>), Str(<<" ", "1", "/", "2", "/", "2", "0", "2", "5", " ">>)}

DateRows == {("Order Date" :> c) @@ g_ok : c \in DateCells}

InitDate == sheet = NoSheet /\ InitStore([b |-> <<>>, g |-> <<>>])

NextDate ==
    \/ Receive(1, "gazelle")
    \/ ReadWorkbook(1, 1)
    \/ \E row \in DateRows : GazelleRowStep(1, row, "ok")
    \/ Unlink(1)
    \/ Respond(1)

SpecDate == InitDate /\ [][NextDate]_vars

\* the order date cell of a row
DateCell(row) == IF "Order Date" \in DOMAIN row THEN row["Order Date"] ELSE Str(<<>>)

\* request r stores the row of this step; Stored is the new record
Stores(r) == RowStep(r) /\ req'[r].newRecords = req[r].newRecords + 1
Stored == CHOOSE o \in gazelle_sales' : o \notin gazelle_sales

\* C14: parseExcelDate reads every DD/MM/YYYY string day-first: for d and m in
\* 1..12 with d # m the text "d/m/YYYY" yields day d of month m of year YYYY.
C14_DayFirst ==
    [][\A r \in Reqs :
          Stores(r)
          => \A d \in 1..12, m \in 1..12, y \in Years :
                 /\ d # m
                 /\ DateCell(StepRow(r)) \in {Str(DMYText(d, m, y)), Str(DMYShort(d, m, y))}
                 => /\ Stored.order_date # NoDate
                    /\ CivilFromDays(Stored.order_date.days) = <<y, m, d>>]_vars

\* y-m-d is a date of the calendar
ValidCivil(y, m, d) ==
    LET leap == y % 4 = 0 /\ (y % 100 # 0 \/ y % 400 = 0)
        last == IF m = 2 THEN (IF leap THEN 29 ELSE 28)
                ELSE IF m \in {4, 6, 9, 11} THEN 30 ELSE 31
    IN  m \in 1..12 /\ d \in 1..last

\* C15: parseExcelDate returns null for every input whose day, month and year
\* are not a date of the calendar and for every serial number beyond the
\* range of a date; it never returns a date other than the one written in the
\* cell.
C15_InvalidDatesAreNull ==
    [][\A r \in Reqs :
          Stores(r)
          => /\ \A d \in 0..MaxDay, m \in 0..MaxMonth, y \in Years :
                    DateCell(StepRow(r)) \in {Str(DMYText(d, m, y)), Str(DMYShort(d, m, y)),
                                              Str(ISOText(y, m, d))}
                    => \/ Stored.order_date = NoDate
                       \/ /\ ValidCivil(y, m, d)
                          /\ CivilFromDays(Stored.order_date.days) = <<y, m, d>>
             /\ \A s \in Serials :
                    DateCell(StepRow(r)) = Num(s) /\ s - 25569 > MaxDateDays
                    => Stored.order_date = NoDate]_vars

\* C16 as written: every numeric serial s yields the instant s - 25569 days
\* after 1970-01-01T00:00:00Z.
C16_EverySerial ==
    [][\A r \in Reqs :
          Stores(r)
          => \A s \in Serials :
                 DateCell(StepRow(r)) = Num(s)
                 => Stored.order_date = [zone |-> "utc", days |-> s - 25569]]_vars

\* C16: every numeric serial s other than 0 whose instant a Date can hold
\* (s - 25569 at most 100,000,000 days) yields the instant s - 25569 days after
\* 1970-01-01T00:00:00Z; serial 0 and larger serials yield null.
C16_SerialToDate ==
    [][\A r \in Reqs :
          Stores(r)
          => \A s \in Serials :
                 DateCell(StepRow(r)) = Num(s)
                 => Stored.order_date =
                        IF s # 0 /\ s - 25569 <= 100000000
                        THEN [zone |-> "utc", days |-> s - 25569]
                        ELSE NoDate]_vars

\* serial 45000 was stored as 15 March 2023
C16_Witness ==
    /\ req[1].pc = "respond" /\ req[1].newRecords = 1
    /\ DateCell(req[1].data[1]) = Num(45000)
    /\ \E o \in gazelle_sales :
           /\ o.order_date = [zone |-> "utc", days |-> 19431]
           /\ CivilFromDays(o.order_date.days) = <<2023, 3, 15>>

\* --------------------------------- one row with a price cell, either handler
\* the parts of a price text, with the number each part denotes
PriceInts ==
    {[t |-> <<"0">>, v |-> 0], [t |-> <<"5">>, v |-> 5], [t |-> <<"1", "2">>, v |-> 12],
     [t |-> <<"1", ",", "2", "3", "4">>, v |-> 1234]}

PriceFracs ==
    {[t |-> <<>>, c |-> 0], [t |-> <<".", "5">>, c |-> 50], [t |-> <<".", "5", "0">>, c |-> 50],
     [t |-> <<".", "0", "7">>, c |-> 7]}

PriceSyms == {<<>>, <<"£">>, <<"G", "B", "P">>, <<"G", "B", "P", " ">>}

Blanks == {<<>>, <<" ">>}

\* price texts with the amount they denote, in hundredths
PriceCases ==
    {[text |-> a \o s \o i.t \o f.t \o b, cents |-> 100 * i.v + f.c] :
         a \in Blanks, s \in PriceSyms, i \in PriceInts, f \in PriceFracs, b \in Blanks}

\* texts that hold no number
PriceJunk == {<<>>, <<"n", "/", "a">>, <<"£">>, <<" ">>}

PriceTexts == {c.text : c \in PriceCases} \cup PriceJunk

BooksonixPriceRows ==
    {("SKU" :> Str(<<"B", "2">>) @@ "Price" :> Str(t)) : t \in PriceTexts}

GazellePriceRows == {("Unit Price" :> Str(t)) @@ g_ok : t \in PriceTexts}

InitPrice == sheet = NoSheet /\ InitStore([b |-> <<>>, g |-> <<>>])

NextPrice ==
    \/ \E kind \in Kinds : Receive(1, kind)
    \/ ReadWorkbook(1, 1)
    \/ \E row \in BooksonixPriceRows : BooksonixRowStep(1, row, TRUE)
    \/ \E row \in GazellePriceRows : GazelleRowStep(1, row, "ok")
    \/ Unlink(1)
    \/ Respond(1)

SpecPrice == InitPrice /\ [][NextPrice]_vars

\* the price text of the row of this step and the price stored for it
StepPriceText(r) ==
    IF req[r].kind = "booksonix" THEN StepRow(r)["Price"].s ELSE StepRow(r)["Unit Price"].s

StoredPrice(r) ==
    IF req[r].kind = "booksonix"
    THEN (CHOOSE o \in booksonix_records' : o \notin booksonix_records).price
    ELSE Stored.unit_price

\* C17: in both handlers a price cell made of a currency symbol or code ("£",
\* "GBP"), thousands separators and blanks around a decimal number is stored
\* as that number, and an empty or unparsable cell as 0.
C17_PriceNormalised ==
    [][\A r \in Reqs :
          Stores(r)
          => /\ \A c \in PriceCases : StepPriceText(r) = c.text => StoredPrice(r) = c.cents
             /\ StepPriceText(r) \in PriceJunk => StoredPrice(r) = 0]_vars

\* C18: every currency or percentage value that an upload stores (Booksonix
\* price, Gazelle unit price and discount) is non-negative, whatever the cell
\* held, a leading minus sign included.
C18_NonNegative ==
    /\ \A o \in booksonix_records : o.price >= 0
    /\ \A o \in gazelle_sales : o.unit_price >= 0 /\ o.discount >= 0

\* the value of the first alias whose column the row has, else dflt
RECURSIVE FirstPresent(_, _, _)
FirstPresent(row, aliases, dflt) ==
    IF aliases = <<>> THEN dflt
    ELSE IF Head(aliases) \in DOMAIN row THEN row[Head(aliases)]
         ELSE FirstPresent(row, Tail(aliases), dflt)

\* C19: each target field takes the value of the first alias, in declared
\* order, whose column is present in the row, labels compared exactly; with no
\* alias present the field is empty.  Stated for the key fields: the Booksonix
\* SKU and title and the Gazelle order reference are those of the first present
\* alias.
C19_FirstPresentAlias ==
    [][\A r \in Reqs :
          RowStep(r) /\ req'[r].rejected = req[r].rejected
          => LET row == StepRow(r)
                 sku == FirstPresent(row, <<"SKU", "sku", "Sku", "Product SKU", "Product Code",
                                            "Item Code", "Code">>, Str(<<>>))
                 title == FirstPresent(row, <<"Title", "TITLE", "Product Title">>, Str(<<>>))
                 ref == FirstPresent(row, <<"Order Ref", "OrderRef", "order_ref",
                                            "Order Reference", "Order No", "Order Number">>,
                                     Str(<<>>))
             IN  /\ req[r].kind = "booksonix"
                    => IF Truthy(sku) /\ Trim(StripChars(String(sku), {"-"})) # <<>>
                       THEN \E o \in booksonix_records' :
                                /\ o.sku = Trim(StripChars(String(sku), {"-"}))
                                /\ o.title = String(title)
                                /\ o.last_updated = now'
                       ELSE req'[r].skippedNoSku = req[r].skippedNoSku + 1
                 /\ req[r].kind = "gazelle" /\ Stores(r)
                    => Stored.order_ref = Trim(String(ref))]_vars

\* ---------------------------------- an upload of either kind and bulk clears
ClearGazelleRows == {g_ok, g_noref}

InitClear == sheet = NoSheet /\ \E st \in StartStores : InitStore(st)

NextClear ==
    \/ \E kind \in Kinds : Receive(1, kind)
    \/ \E n \in 0..MaxConcRows : ReadWorkbook(1, n)
    \/ \E row \in ConcBooksonixRows, ok \in BOOLEAN : BooksonixRowStep(1, row, ok)
    \/ \E row \in ClearGazelleRows, out \in QueryOutcomes : GazelleRowStep(1, row, out)
    \/ Unlink(1)
    \/ Respond(1)
    \/ ClearBooksonix
    \/ ClearData

SpecClear == InitClear /\ [][NextClear]_vars

Ids(table) == {o.id : o \in table}

\* C20: a stored record is removed only by the bulk clear of its kind.  A
\* clear leaves no record of its kind, reports as deletedCount the number of
\* records of that kind stored just before, and leaves the other kind as it
\* was; any other step keeps every stored record.
C20_OnlyClearRemoves ==
    [][IF Len(clears') = Len(clears) + 1
       THEN LET c == clears'[Len(clears')]
            IN  IF c.kind = "booksonix"
                THEN /\ booksonix_records' = {}
                     /\ c.deletedCount = Cardinality(booksonix_records)
                     /\ gazelle_sales' = gazelle_sales
                ELSE /\ gazelle_sales' = {}
                     /\ c.deletedCount = Cardinality(gazelle_sales)
                     /\ booksonix_records' = booksonix_records
       ELSE /\ Ids(booksonix_records) \subseteq Ids(booksonix_records')
            /\ Ids(gazelle_sales) \subseteq Ids(gazelle_sales')
            /\ Cardinality(booksonix_records') >= Cardinality(booksonix_records)
            /\ Cardinality(gazelle_sales') >= Cardinality(gazelle_sales)]_vars

\* the sales were cleared while an upload was running; the catalogue is intact
C20_Witness ==
    /\ clears = <<[kind |-> "gazelle", deletedCount |-> 1]>>
    /\ gazelle_sales = {}
    /\ Cardinality(booksonix_records) = 1
    /\ req[1].kind = "gazelle" /\ req[1].pc = "rows" /\ req[1].i = 0 /\ req[1].n = 1

\* C21: a Booksonix row with a SKU whose storage call succeeds is counted as
\* new exactly when no record with its SKU was stored when the row was
\* processed (rows of the same file stored before it included) and as updated
\* exactly when one was; every step of an upload that runs alone changes the
\* number of stored records by what it adds to newRecords, so the number after
\* the upload is the number before plus newRecords.
C21_NewIffAbsent ==
    [][/\ RowStep(1) /\ req[1].kind = "booksonix"
          /\ ~ KeyEmpty("booksonix", StepRow(1)) /\ req'[1].rejected = req[1].rejected
          => LET sku == BooksonixParams(StepRow(1)).sku
                 existed == \E o \in booksonix_records : o.sku = sku
             IN  /\ req'[1].newRecords = req[1].newRecords + (IF existed THEN 0 ELSE 1)
                 /\ req'[1].duplicates = req[1].duplicates + (IF existed THEN 1 ELSE 0)
       /\ req[1].kind = "booksonix" /\ req[1].pc = "rows" /\ req'[1].pc # "done"
          => Cardinality(booksonix_records') - Cardinality(booksonix_records)
                 = req'[1].newRecords - req[1].newRecords]_vars

\* on a store of one record a file of three rows created one record and
\* updated two, one of them the record the file itself had just created
C21_Witness ==
    /\ req[1].kind = "booksonix" /\ req[1].pc = "respond"
    /\ req[1].data = <<b_code, b_sku5, b_code>>
    /\ req[1].newRecords = 1 /\ req[1].duplicates = 2
    /\ Cardinality(booksonix_records) = 2 /\ gazelle_sales # {}

\* ------------------------- one Booksonix upload on a table of older records
\* records that an earlier version of the application stored: the columns
\* author and quantity, which the upload always sends as '' and 0, hold values
LegacyRecords ==
    {[id |-> 1, sku |-> <<"A", "B", "C", "1", "2", "3">>, isbn |-> <<"9", "7">>,
      title |-> <<"O">>, author |-> <<"A">>, publisher |-> <<"P">>, price |-> 100,
      quantity |-> 3, upload_date |-> 1, last_updated |-> 1],
     [id |-> 2, sku |-> <<"B", "2">>, isbn |-> NULL,
      title |-> <<"U">>, author |-> <<"B">>, publisher |-> <<>>, price |-> 0,
      quantity |-> 1, upload_date |-> 2, last_updated |-> 2]}

InitFrame ==
    /\ booksonix_records \in {LegacyRecords, {}}
    /\ gazelle_sales = {}
    /\ booksonix_id_seq = 2
    /\ gazelle_id_seq = 0
    /\ now = 2
    /\ uploads = {}
    /\ req = [r \in Reqs |-> NoRequest]
    /\ clears = <<>>
    /\ sheet = NoSheet
    /\ snapshot = <<{}, {}>>
    /\ UsersAtRest

NextFrame ==
    \/ Receive(1, "booksonix")
    \/ \E n \in 0..MaxRows : ReadWorkbook(1, n)
    \/ \E row \in BooksonixRows, ok \in BOOLEAN : BooksonixRowStep(1, row, ok)
    \/ Unlink(1)
    \/ Respond(1)

SpecFrame == InitFrame /\ [][NextFrame]_vars

\* C30: when a Booksonix row updates a stored record, the record keeps its
\* id, sku, author, quantity and upload_date (only isbn, title, publisher,
\* price and last_updated may change), and every record with another SKU is
\* left as it was.
C30_UpdateFrame ==
    [][RowStep(1) /\ req'[1].duplicates = req[1].duplicates + 1
       => LET sku == BooksonixParams(StepRow(1)).sku
              old == Record(booksonix_records, sku)
              new == Record(booksonix_records', sku)
          IN  /\ \A f \in {"id", "sku", "author", "quantity", "upload_date"} : new[f] = old[f]
              /\ {o \in booksonix_records : o.sku # sku}
                     = {o \in booksonix_records' : o.sku # sku}
              /\ Cardinality(booksonix_records') = Cardinality(booksonix_records)]_vars

\* a row updated the older record of its SKU: title and price are the row's,
\* author, quantity and upload date are the older ones
C30_Witness ==
    /\ req[1].pc = "rows" /\ req[1].data = <<b_full>> /\ req[1].duplicates = 1
    /\ \E o \in booksonix_records :
           /\ o.id = 1 /\ o.title = <<"T">> /\ o.price = 123450
           /\ o.author = <<"A">> /\ o.quantity = 3 /\ o.upload_date = 1 /\ o.last_updated = 3
    /\ \E o \in booksonix_records : o.id = 2 /\ o.last_updated = 2

\* ------------------- src/unnamed/part_004: POST /api/gazelle/upload
\* The handler of part_004 reads the sheet by position: sheet_to_json with
\* header: 1, defval: '' and raw: false hands every row over as an array of
\* strings, columns A..L at indices 0..11.  Its gazelle_sales table has
\* UNIQUE(order_ref, invoice, isbn13).
dataRowSamples ==
    << \* 1: a complete row, date as DD/MM/YYYY
       << <<"1", "9", "/", "0", "9", "/", "2", "0", "2", "5">>, <<"C", "1">>, <<"7">>, <<"C">>,
          <<"I", "1">>, <<"T">>, <<>>, <<"9", "7">>, <<"2">>, <<"1", "0", ".", "0", "0">>,
          <<>>, <<>> >>,
       \* 2: the same invoice and EAN again, date as a serial number
       << <<"4", "5", "0", "0", "0">>, <<"C", "1">>, <<"7">>, <<"N">>,
          <<"I", "1">>, <<"T">>, <<>>, <<"9", "7">>, <<"3">>, <<"1", "0">>, <<>>, <<>> >>,
       \* 3: a blank row
       << <<>>, <<>>, <<>>, <<>>, <<>>, <<>>, <<>>, <<>>, <<>>, <<>>, <<>>, <<>> >>,
       \* 4: a row without cells
       << >>,
       \* 5: no customer code in column B, the other cells filled
       << <<>>, <<>>, <<"8">>, <<"N">>, <<"I", "2">>, <<"T">>, <<>>, <<"9", "8">>, <<"1">>,
          <<"5">>, <<>>, <<>> >>,
       \* 6: a serial number beyond the range of a Date
       << <<"1", "0", "0", "0", "2", "5", "5", "7", "0">>, <<"C", "1">>, <<"7">>, <<"N">>,
          <<"I", "3">>, <<"T">>, <<>>, <<"9", "8">>, <<"1">>, <<"5">>, <<>>, <<>> >>,
       \* 7: no invoice, date as YYYY-MM-DD
       << <<"2", "0", "2", "5", "-", "0", "9", "-", "1", "9">>, <<"C", "2">>, <<"7">>, <<"N">>,
          <<>>, <<"T">>, <<>>, <<"9", "8">>, <<"0">>, <<"5">>, <<>>, <<>> >> >>

DataRows == {dataRowSamples[k] : k \in DOMAIN dataRowSamples}

\* row[j] || '' : a missing cell is undefined, undefined and '' are falsy
Col(row, j) == IF j + 1 \in DOMAIN row THEN row[j + 1] ELSE <<>>

\* !isNaN(s) for a string s: Number(s) is a number when s is blank or a
\* decimal literal.  (Exponents, hex literals and "Infinity" need letters that
\* the date cells of this model do not have.)
IsNumber(s) ==
    LET t == Trim(s)
        u == IF t # <<>> /\ Head(t) \in {"-", "+"} THEN Tail(t) ELSE t
        ni == PrefixLen(u, Digits)
        rest == SubSeq(u, ni + 1, Len(u))
    IN  \/ t = <<>>
        \/ ni > 0 /\ rest = <<>>
        \/ /\ rest # <<>> /\ Head(rest) = "."
           /\ PrefixLen(Tail(rest), Digits) = Len(rest) - 1
           /\ ni + Len(rest) - 1 > 0

\* date.toISOString().split('T')[0] for a date within the years 0..9999
ISODate(days) ==
    LET c == CivilFromDays(days)
        y == NatToStr(c[1])
    IN  SubSeq(<<"0", "0", "0">>, 1, 4 - Len(y)) \o y \o <<"-">> \o Pad2(c[2]) \o <<"-">> \o Pad2(c[3])

\* s.padStart(2, '0')
PadStart2(s) == IF Len(s) < 2 THEN SubSeq(<<"0", "0">>, 1, 2 - Len(s)) \o s ELSE s

\* Lines 221-235: the order_date handed to the statement.  throws tells that
\* toISOString raised a RangeError (the Date is invalid); value is NULL or a
\* text.
orderDate(cell) ==
    IF cell = <<>> THEN [throws |-> FALSE, value |-> NULL]
    ELSE IF IsNumber(cell)
    THEN LET excelDate == parseInt(cell)
             date == IF excelDate.nan THEN NoDate ELSE DateFromDays(Integer(excelDate) - 25569)
         IN  IF date = NoDate THEN [throws |-> TRUE, value |-> NULL]
             ELSE [throws |-> FALSE, value |-> ISODate(date.days)]
    ELSE IF "/" \in {cell[k] : k \in 1..Len(cell)} /\ Len(Split(cell, "/")) = 3
    THEN LET parts == Split(cell, "/")
         IN  [throws |-> FALSE,
              value |-> parts[3] \o <<"-">> \o PadStart2(parts[2]) \o <<"-">> \o PadStart2(parts[1])]
    ELSE [throws |-> FALSE, value |-> cell]

\* The DATE that PostgreSQL reads from the text of a parameter: NULL stays
\* NULL, a text YYYY-MM-DD naming a day of the calendar is that day, and any
\* other text of this model is rejected (rejects).
PgDate(v) ==
    IF v = NULL THEN [rejects |-> FALSE, date |-> NoDate]
    ELSE IF MatchesISO(v)
    THEN LET p == Split(v, "-")
             y == DigitsToNat(p[1])  m == DigitsToNat(p[2])  d == DigitsToNat(p[3])
         IN  IF y >= 1 /\ ValidCivil(y, m, d)
             THEN [rejects |-> FALSE, date |-> DateOf("utc", DaysFromCivil(y, m, d))]
             ELSE [rejects |-> TRUE, date |-> NoDate]
    ELSE [rejects |-> TRUE, date |-> NoDate]

\* SELECT display_name FROM customer_name_mappings WHERE original_name = $1,
\* on a table with the one mapping "N" -> "M"
display_name(customer_name) == IF customer_name = <<"N">> THEN <<"M">> ELSE customer_name

\* recordData of a row (lines 205-255); ms is Date.now()
recordData(row, ms) ==
    LET quantity == OrZero(parseInt(Col(row, 8)))
        total_amount == OrZero(parseFloat(Col(row, 9)))
        invoice == Col(row, 4)
    IN  [order_date |-> orderDate(Col(row, 0)),
         customer_code |-> Col(row, 1),
         customer_number |-> Col(row, 2),
         customer_name |-> display_name(Col(row, 3)),
         invoice |-> invoice,
         title |-> Col(row, 5),
         imprint |-> Col(row, 6),
         isbn13 |-> Col(row, 7),
         quantity |-> Integer(quantity),
         total_amount |-> Decimal2(total_amount),
         unit_price |-> IF ~ quantity.neg /\ quantity.num > 0
                           /\ ~ total_amount.neg /\ total_amount.num > 0
                        THEN Decimal2([total_amount EXCEPT !.den = @ * quantity.num])
                        ELSE Decimal2(total_amount),
         carrier |-> Col(row, 10),
         tracking |-> Col(row, 11),
         file_name |-> <<"f">>,
         order_ref |-> IF invoice # <<>> THEN invoice
                       ELSE <<"O", "R", "D", "-">> \o NatToStr(ms)]

\* if (!row || row.length === 0 || !row[1]) continue;
dataRowSkipped(row) == Len(row) = 0 \/ Col(row, 1) = <<>>

\* the table after INSERT INTO gazelle_sales ... ON CONFLICT (order_ref,
\* invoice, isbn13) DO UPDATE SET quantity, unit_price, total_amount, upload_date
UpsertGazelle(table, d, id, ts) ==
    LET hit(o) == o.order_ref = d.order_ref /\ o.invoice = d.invoice /\ o.isbn13 = d.isbn13
    IN  IF \E o \in table : hit(o)
        THEN {IF hit(o) THEN [o EXCEPT !.quantity = d.quantity, !.unit_price = d.unit_price,
                                       !.total_amount = d.total_amount, !.upload_date = ts]
              ELSE o : o \in table}
        ELSE table \cup {[d EXCEPT !.order_date = PgDate(d.order_date.value).date]
                         @@ [id |-> id, upload_date |-> ts]}

\* if (rawData.length < 2) { fs.unlinkSync(...); return res.status(400)... }
TooShort(r) ==
    /\ req[r].kind = "gazelle" /\ req[r].pc = "received"
    /\ uploads' = uploads \ {r}
    /\ req' = [req EXCEPT ![r] = [NoRequest EXCEPT !.kind = "gazelle", !.pc = "done",
                                                    !.res = [NoResponse EXCEPT !.status = 400]]]
    /\ UNCHANGED <<Store, clears, sheet, users, deletes, snapshot>>

\* One iteration of `for (const row of dataRows)`.  Date.now() is read when
\* the row has no invoice: it is the millisecond of the previous statement or,
\* when later holds, a later one.  ok tells whether both pool.query calls resolve; a statement
\* whose order_date PostgreSQL cannot read is rejected by PostgreSQL itself.
dataRowStep(r, row, later, ok) ==
    LET q == req[r]
        d == recordData(row, IF later THEN now + 1 ELSE now)
        next == [q EXCEPT !.i = @ + 1, !.data = Append(@, row),
                          !.rejected = IF ok THEN @ ELSE @ + 1]
    IN  /\ Idle
        /\ q.kind = "gazelle" /\ q.pc = "rows" /\ q.i < q.n
        /\ IF dataRowSkipped(row)
           THEN /\ ok /\ ~ later
                /\ req' = [req EXCEPT ![r] = next]
                /\ UNCHANGED Store
           ELSE IF d.order_date.throws
           THEN /\ ok /\ ~ later
                /\ req' = [req EXCEPT ![r] = [next EXCEPT !.errors = @ + 1]]
                /\ UNCHANGED Store
           ELSE /\ d.invoice # <<>> => ~ later
                /\ IF ok /\ ~ PgDate(d.order_date.value).rejects
                   THEN /\ gazelle_sales' =
                               UpsertGazelle(gazelle_sales, d, gazelle_id_seq + 1, now + 1)
                        /\ gazelle_id_seq' = gazelle_id_seq + 1
                        /\ now' = now + 1
                        /\ req' = [req EXCEPT ![r] = [next EXCEPT !.newRecords = @ + 1]]
                        /\ UNCHANGED <<booksonix_records, booksonix_id_seq>>
                   ELSE /\ req' = [req EXCEPT ![r] = [next EXCEPT !.errors = @ + 1]]
                        /\ UNCHANGED Store
        /\ UNCHANGED <<uploads, clears, sheet, users, deletes, snapshot>>

\* ------------------- src/unnamed/part_004: POST /api/booksonix/upload
\* sku.toString().replace(/-/g, '')
cleanedSKU(row) == StripChars(String(OrChain(row, <<"SKU", "sku">>, Str(<<>>))), {"-"})

\* the parameters [cleanedSKU, isbn, title, publisher, price]; the price is
\* parseFloat of the cell as it is, NaN included (a numeric column stores NaN)
booksonixValues(row) ==
    LET price == parseFloat(String(OrChain(row, <<"Price", "price">>, Num(0))))
    IN  [sku |-> cleanedSKU(row),
         isbn |-> String(OrChain(row, <<"ISBN", "isbn">>, Str(<<>>))),
         title |-> String(OrChain(row, <<"Title", "title">>, Str(<<>>))),
         publisher |-> String(OrChain(row, <<"Publisher", "publisher">>, Str(<<>>))),
         price |-> [nan |-> price.nan, cents |-> IF price.nan THEN 0 ELSE Decimal2(price)]]

\* the table after INSERT INTO booksonix ... ON CONFLICT (sku) DO NOTHING
InsertBooksonix(table, v, id, ts) ==
    IF \E o \in table : o.sku = v.sku THEN table
    ELSE table \cup {v @@ [id |-> id, upload_date |-> ts]}

\* One iteration of `for (const row of data)` of part_004: a unique violation
\* counts as a duplicate, any other rejection is thrown again and reaches the
\* catch block of the handler.
booksonixStep(r, row, out) ==
    LET q == req[r]
        next == [q EXCEPT !.i = @ + 1, !.data = Append(@, row),
                          !.rejected = IF out = "error" THEN @ + 1 ELSE @]
    IN  /\ Idle
        /\ q.kind = "booksonix" /\ q.pc = "rows" /\ q.i < q.n
        /\ IF cleanedSKU(row) = <<>>
           THEN /\ out = "ok"
                /\ req' = [req EXCEPT ![r] = next]
                /\ UNCHANGED Store
           ELSE IF out = "ok"
           THEN /\ booksonix_records' = InsertBooksonix(booksonix_records, booksonixValues(row),
                                                        booksonix_id_seq + 1, now + 1)
                /\ booksonix_id_seq' = booksonix_id_seq + 1
                /\ now' = now + 1
                /\ req' = [req EXCEPT ![r] = [next EXCEPT !.newRecords = @ + 1]]
                /\ UNCHANGED <<gazelle_sales, gazelle_id_seq>>
           ELSE /\ req' = [req EXCEPT ![r] =
                              IF out = "duplicate" THEN [next EXCEPT !.duplicates = @ + 1]
                              ELSE [next EXCEPT !.pc = "catch"]]
                /\ UNCHANGED Store
        /\ UNCHANGED <<uploads, clears, sheet, users, deletes, snapshot>>

\* res.json({ success: true, message, newRecords, duplicates, errors }) of
\* part_004 (its Booksonix handler has no errors counter)
Answer(r) ==
    /\ req[r].pc = "respond"
    /\ req' = [req EXCEPT ![r] =
                  [NoRequest EXCEPT !.kind = req[r].kind, !.pc = "done",
                                    !.res = [NoResponse EXCEPT !.status = 200, !.success = TRUE,
                                                               !.newRecords = req[r].newRecords,
                                                               !.duplicates = req[r].duplicates,
                                                               !.errors = req[r].errors]]]
    /\ UNCHANGED <<Store, uploads, clears, sheet, users, deletes, snapshot>>

\* one upload to a server of part_004, on empty tables.  Entering the
\* handler, reading the workbook, deleting the file and the catch block are
\* as in src/server.js.
NextPart4 ==
    \/ \E kind \in Kinds : Receive(1, kind)
    \/ \E n \in 0..MaxDataRows : ReadWorkbook(1, n)
    \/ ReadWorkbookThrows(1)
    \/ TooShort(1)
    \/ \E row \in DataRows, later, ok \in BOOLEAN : dataRowStep(1, row, later, ok)
    \/ \E row \in BooksonixRows, out \in QueryOutcomes : booksonixStep(1, row, out)
    \/ Unlink(1)
    \/ Answer(1)
    \/ Catch(1)

SpecPart4 == Init /\ [][NextPart4]_vars

\* C22: in the Gazelle upload of part_004 every row adds to newRecords what it
\* adds to the table: a row whose key (order_ref, invoice, isbn13) is already
\* stored is not counted as new, so newRecords is the number of records the
\* upload created.
C22_NewRecordsAreCreations ==
    [][RowStep(1) /\ req[1].kind = "gazelle"
       => req'[1].newRecords - req[1].newRecords
              = Cardinality(gazelle_sales') - Cardinality(gazelle_sales)]_vars

\* some cell of the row is not empty
NonBlank(row) == \E j \in DOMAIN row : row[j] # <<>>

\* C23: in the Gazelle upload of part_004 every data row with a non-empty
\* cell adds one to exactly one of the counters newRecords, duplicates and
\* errors; only blank rows pass uncounted.
C23_OnlyBlankRowsUncounted ==
    [][RowStep(1) /\ req[1].kind = "gazelle" /\ NonBlank(StepRow(1))
       => req'[1].newRecords + req'[1].duplicates + req'[1].errors
              = req[1].newRecords + req[1].duplicates + req[1].errors + 1]_vars

\* C25: in the Gazelle upload of part_004 no content of the date cell makes a
\* row an error: a row that is not skipped and whose storage calls are not
\* rejected for another reason is stored and adds nothing to errors.
C25_DateNeverRaises ==
    [][/\ RowStep(1) /\ req[1].kind = "gazelle"
       /\ ~ dataRowSkipped(StepRow(1)) /\ req'[1].rejected = req[1].rejected
       => /\ req'[1].errors = req[1].errors
          /\ req'[1].newRecords = req[1].newRecords + 1]_vars

\* C24: in the Booksonix upload of part_004 a storage failure on one row
\* leaves the loop running (the next row is processed and a summary follows),
\* and a top-level failure response is never sent after a row of the upload
\* was stored.
C24_StorageFailureContinues ==
    [][req[1].kind = "booksonix"
       => /\ RowStep(1) /\ req'[1].rejected = req[1].rejected + 1 => req'[1].pc = "rows"
          /\ req[1].pc # "done" /\ req'[1].pc = "done" /\ req'[1].res.status = 500
             => booksonix_records = {}]_vars

LiveSheets ==
    {[kind |-> "booksonix", rows |-> f] : f \in Seqs({b_sku5, b_nosku}, MaxLiveRows)}
    \cup {[kind |-> "gazelle", rows |-> f] : f \in Seqs({g_ok, g_noref}, MaxLiveRows)}

InitLive == sheet \in LiveSheets /\ \E st \in StartStores : InitStore(st)

\* the steps of the handler of request 1: the iterations of its loop, which
\* wait for pool.query, and its synchronous pieces
LoopStep ==
    \/ \E ok \in BOOLEAN : req[1].i < req[1].n /\ BooksonixRowStep(1, SheetRow(1), ok)
    \/ \E out \in QueryOutcomes : req[1].i < req[1].n /\ GazelleRowStep(1, SheetRow(1), out)

SyncStep ==
    \/ ReadWorkbook(1, Len(sheet.rows))
    \/ ReadWorkbookThrows(1)
    \/ Unlink(1)
    \/ Respond(1)
    \/ Catch(1)

NextLive == ReceiveSheet(1) \/ LoopStep \/ SyncStep

\* the loop of request 1 has a row to process: ENABLED <<LoopStep>>_vars
LoopPending == req[1].pc = "rows" /\ req[1].i < req[1].n

\* Node runs synchronous code to its end and runs the continuation of a
\* handler once the promise it awaits is settled; every pool.query is taken to
\* settle (resolve or reject).  So a handler that can take a step eventually
\* takes one: weak fairness of SyncStep and of LoopStep, the latter with its
\* enabling condition written out.
SpecLive ==
    /\ InitLive /\ [][NextLive]_vars
    /\ WF_vars(SyncStep)
    /\ ([]<>(~ LoopPending) \/ []<><<LoopStep>>_vars)

Rest == <<booksonix_records, gazelle_sales, booksonix_id_seq, gazelle_id_seq,
          now, uploads, req, clears, sheet, snapshot>>

Answered(q, status) == [q EXCEPT !.pc = "done", !.status = status]

\* the request arrives: const { id } = req.params
DeleteUser(d, id) ==
    /\ deletes[d].pc = "none"
    /\ \A e \in DeleteReqs : e < d => deletes[e].pc # "none"
    /\ deletes' = [deletes EXCEPT ![d] = [@ EXCEPT !.pc = "select", !.id = id]]
    /\ UNCHANGED <<Rest, users>>

\* SELECT role FROM users WHERE id = $1; 404 when there is no such user
SelectRole(d, ok) ==
    LET q == deletes[d]
        rows == {u \in users : u.id = q.id}
    IN  /\ q.pc = "select"
        /\ deletes' = [deletes EXCEPT ![d] =
               IF ~ ok THEN Answered(q, 500)
               ELSE IF rows = {} THEN Answered(q, 404)
               ELSE LET role == (CHOOSE u \in rows : TRUE).role
                    IN  [q EXCEPT !.role = role,
                                  !.pc = IF role = "admin" THEN "count" ELSE "delete"]]
        /\ UNCHANGED <<Rest, users>>

\* SELECT COUNT(*) FROM users WHERE role = 'admin' AND id != $1; 400 when the
\* count is '0'
adminCount(table, id) == Cardinality({u \in table : u.role = "admin" /\ u.id # id})

CountAdmins(d, ok) ==
    LET q == deletes[d]
    IN  /\ q.pc = "count"
        /\ deletes' = [deletes EXCEPT ![d] =
               IF ~ ok THEN Answered(q, 500)
               ELSE IF adminCount(users, q.id) = 0 THEN Answered(q, 400)
               ELSE [q EXCEPT !.pc = "delete"]]
        /\ UNCHANGED <<Rest, users>>

\* DELETE FROM users WHERE id = $1; res.json({ success: true })
DeleteRow(d, ok) ==
    LET q == deletes[d]
    IN  /\ q.pc = "delete"
        /\ users' = IF ok THEN {u \in users : u.id # q.id} ELSE users
        /\ deletes' = [deletes EXCEPT ![d] = Answered(q, IF ok THEN 200 ELSE 500)]
        /\ UNCHANGED Rest

\* users tables: one admin and an editor, two admins, two admins and an editor
UserTables ==
    {{[id |-> 1, role |-> "admin"], [id |-> 2, role |-> "editor"]},
     {[id |-> 1, role |-> "admin"], [id |-> 2, role |-> "admin"]},
     {[id |-> 1, role |-> "admin"], [id |-> 2, role |-> "admin"], [id |-> 3, role |-> "editor"]}}

\* the ids a request may name: those of the users and one of no user
UserIds == 1..4

InitUsers ==
    /\ booksonix_records = {} /\ gazelle_sales = {}
    /\ booksonix_id_seq = 0 /\ gazelle_id_seq = 0 /\ now = 0
    /\ uploads = {} /\ req = [r \in Reqs |-> NoRequest] /\ clears = <<>>
    /\ sheet = NoSheet /\ snapshot = <<{}, {}>>
    /\ users \in UserTables
    /\ deletes = [d \in DeleteReqs |-> NoDelete]

NextUsers ==
    \/ \E d \in DeleteReqs, id \in UserIds : DeleteUser(d, id)
    \/ \E d \in DeleteReqs, ok \in BOOLEAN : SelectRole(d, ok)
    \/ \E d \in DeleteReqs, ok \in BOOLEAN : CountAdmins(d, ok)
    \/ \E d \in DeleteReqs, ok \in BOOLEAN : DeleteRow(d, ok)

SpecUsers == InitUsers /\ [][NextUsers]_vars

Admins(table) == {u \in table : u.role = "admin"}

\* C28: a users table that holds an admin holds one after every step of any
\* number of delete requests, however they interleave; a request that names
\* the only admin is answered with 400 and leaves the table as it was.
C28_LastAdminKept ==
    [][/\ Admins(users) # {} => Admins(users') # {}
       /\ \A d \in DeleteReqs :
              /\ deletes[d].pc = "count" /\ deletes'[d].pc = "done" /\ deletes'[d].status # 500
              /\ \A u \in Admins(users) : u.id = deletes[d].id
              => deletes'[d].status = 400 /\ users' = users]_vars

\* ------------------------- Gazelle uploads one after the other, and clears
SalesRows == {g_ok, g_neg, g_nocust}

NextSales ==
    \/ \E r \in Reqs : (r > 1 => req[r - 1].pc = "done") /\ Receive(r, "gazelle")
    \/ \E r \in Reqs, n \in 0..MaxConcRows : ReadWorkbook(r, n)
    \/ \E r \in Reqs, row \in SalesRows : GazelleRowStep(r, row, "ok")
    \/ \E r \in Reqs : Unlink(r)
    \/ \E r \in Reqs : Respond(r)
    \/ ClearData

SpecSales == InitErr /\ [][NextSales]_vars

\* C29: every stored sales record has a non-empty order_ref and
\* customer_name without blanks at either end and an isbn13 without a hyphen,
\* after any sequence of Gazelle uploads and bulk clears.
C29_StoredSalesNormalised ==
    \A o \in gazelle_sales :
        /\ o.order_ref # <<>> /\ Trim(o.order_ref) = o.order_ref
        /\ o.customer_name # <<>> /\ Trim(o.customer_name) = o.customer_name
        /\ \A k \in 1..Len(o.isbn13) : o.isbn13[k] # "-"

\* after a clear, a second upload stored the row whose cells had blanks
\* around the order reference and the customer name, and another one whose
\* ISBN had a hyphen
C29_Witness ==
    /\ Len(clears) = 1 /\ req[2].pc = "done" /\ req[2].res.newRecords = 1
    /\ \E o \in gazelle_sales :
           o.order_ref = <<"O", "1">> /\ o.customer_name = <<"C">> /\ o.quantity = 0 - 1
    /\ \E o \in gazelle_sales : o.isbn13 = <<"9", "7">> /\ o.quantity = 2

====
